---- MODULE Spec2Model ----
(***************************************************************************)
(* Model of the notification paths of src/src/index.ts: the tables         *)
(* usuario, com_ventas, carrito and notificaciones, and the handlers that  *)
(* read or write them.  A handler that awaits several statements is one    *)
(* action per statement, so that concurrent requests interleave at the     *)
(* awaits as they do on the Node event loop; a handler of one statement is *)
(* one action.                                                             *)
(***************************************************************************)
EXTENDS Integers, Sequences, FiniteSets, TLC

\* ------------------------------------------------------------- bounds
MaxUser == 3
MaxPub == 1
MaxReq == 3
MaxNotif == 3
MaxList == 51
MaxConn == 2
MaxCorreo == 4
MaxClave == 2
MaxCuentaReq == 3
MaxCodigo == 2

\* LIMIT 50 of the listing query
LIMIT == 50

Users == 1..MaxUser
Pubs == 1..MaxPub
Reqs == 1..MaxReq
\* the connections of the pool, the e-mail addresses and passwords drawn, and
\* the slots of the account requests (registrar, the password reset)
Conns == 1..MaxConn
Correos == 1..MaxCorreo
Claves == 1..MaxClave
CuentaReqs == 1..MaxCuentaReq
\* the codes Math.random() gives
Codigos == 1..MaxCodigo

\* ------------------------------------------------------- JSON values
\* A request body field: a JSON number, a JSON string holding digits, or
\* absent.  Rows read from the integer columns of the database are numbers.
Num(v) == [t |-> "number", v |-> v]
Str(v) == [t |-> "string", v |-> v]
Ausente == [t |-> "undefined", v |-> 0]
JsonIds == {Num(u) : u \in Users} \cup {Str(u) : u \in Users} \cup {Ausente}

\* !x of JavaScript, for the values drawn here (ids are positive)
Falsy(j) == j.t = "undefined"
\* a !== b of JavaScript: no coercion, so "1" !== 1
StrictNeq(a, b) == a.t # b.t \/ a.v # b.v
\* a parameter bound to an integer column: '1' and 1 are the same row key
SqlInt(j) == j.v

\* ------------------------------------------------------------- state
VARIABLES usuario, com_ventas, carrito, notificaciones, reloj, reqs, resp

\* cuentas: the correo and contraseña columns of the rows of usuario;
\* conexiones: the connections of pool; regs: the registrar requests in flight;
\* codigosReset: the Map of line 33; resets: the reset requests in flight
VARIABLES cuentas, conexiones, regs, codigosReset, resets

\* the state of the password reset
reinicio == <<codigosReset, resets>>

\* what the marketplace and notification handlers leave alone
registro == <<conexiones, regs, codigosReset, resets>>

vars == <<usuario, com_ventas, carrito, notificaciones, reloj, reqs, resp,
          cuentas, conexiones, regs, codigosReset, resets>>

\* user u of the first rows has the address u and the password 0
CuentasIniciales == {[ID_usuario |-> u, correo |-> u, contrasena |-> 0] : u \in Users}

\* an idle connection with no transaction open
ConexionLibre == [prestada |-> FALSE, tx |-> FALSE, pendiente |-> {}]

\* a registrar slot that no request uses yet
RegLibre == [pc |-> "libre", client |-> 0, correo |-> 0, clave |-> 0, foto |-> "ninguna",
             status |-> 0]

\* a reset slot that no request uses yet
ResetLibre == [kind |-> "libre", pc |-> "libre", correo |-> 0, codigo |-> Ausente,
               clave |-> 0, status |-> 0]

\* codigosReset.get(correo) is undefined for every address at the start
InitCuentas ==
  /\ cuentas = CuentasIniciales
  /\ conexiones = [c \in Conns |-> ConexionLibre]
  /\ regs = [r \in CuentaReqs |-> RegLibre]
  /\ codigosReset = [c \in Correos |-> Ausente]
  /\ resets = [r \in CuentaReqs |-> ResetLibre]

\* a request slot that no request uses yet
Libre ==
  [kind |-> "libre", pc |-> "libre", ID_usuario |-> Ausente, ID_publicacion |-> 0,
   id_vendedor |-> 0, compradores |-> <<>>, i |-> 0, notificacionesCreadas |-> 0,
   totalCompradores |-> 0, primario |-> FALSE, borrados |-> {}, status |-> 0]

\* the publications on sale when the model starts: publication p of user Owner(p)
Owner(p) == ((p - 1) % MaxUser) + 1

\* resp is the answer to the last request for a notification (mark as read,
\* list); before the first one there is none
SinRespuesta == [status |-> 0, cuerpo |-> <<>>]

Init ==
  /\ usuario = Users
  /\ com_ventas = {[ID_publicacion |-> p, ID_usuario |-> Owner(p)] : p \in Pubs}
  /\ carrito = <<>>
  /\ notificaciones = <<>>
  /\ reloj = 0
  /\ reqs = [r \in Reqs |-> Libre]
  /\ resp = SinRespuesta
  /\ InitCuentas

\* --------------------------------------------------------- the tables
PubRows(p) == {c \in com_ventas : c.ID_publicacion = p}

RECURSIVE SeqFilterPub(_, _, _)
\* the rows of carrito kept (keep = TRUE) or dropped by WHERE ID_publicacion = p
SeqFilterPub(s, p, keep) ==
  IF s = <<>> THEN <<>>
  ELSE IF (Head(s).ID_publicacion = p) = keep
       THEN <<Head(s)>> \o SeqFilterPub(Tail(s), p, keep)
       ELSE SeqFilterPub(Tail(s), p, keep)

\* the users with a row for publication p in the cart s
DuenosDe(s, p) == {s[k].ID_usuario : k \in {j \in DOMAIN s : s[j].ID_publicacion = p}}

EnCarrito(u, p) ==
  \E k \in DOMAIN carrito : carrito[k].ID_usuario = u /\ carrito[k].ID_publicacion = p

\* mutant of FilaNotificacion: the row is stored already read
FilaNotificacion_Leida(store, u, titulo, cuerpo, data, fecha) ==
  [ID_notificacion |-> Len(store) + 1, ID_usuario |-> u, titulo |-> titulo,
   cuerpo |-> cuerpo, data |-> data, leida |-> TRUE, fecha_envio |-> fecha]

\* INSERT INTO notificaciones ... RETURNING ID_notificacion: the row stored,
\* leida and fecha_envio taking the column defaults
FilaNotificacion(store, u, titulo, cuerpo, data, fecha) ==
  [ID_notificacion |-> Len(store) + 1, ID_usuario |-> u, titulo |-> titulo,
   cuerpo |-> cuerpo, data |-> data, leida |-> FALSE, fecha_envio |-> fecha]

\* the insert resolves when the database accepts it and the owner exists
\* (the foreign key of notificaciones.ID_usuario); otherwise it rejects
InsertaNotificacion(ok, u) == ok /\ u \in usuario

\* guardarNotificacionBD: one INSERT; on rejection the error is logged and
\* thrown again.  TRUE when it resolved, FALSE when it threw
guardarNotificacionBD(ok, u, titulo, cuerpo, data) ==
  IF InsertaNotificacion(ok, u)
  THEN /\ reloj' = reloj + 1
       /\ notificaciones' =
            Append(notificaciones,
                   FilaNotificacion(notificaciones, u, titulo, cuerpo, data, reloj + 1))
  ELSE /\ UNCHANGED <<notificaciones, reloj>>

\* the response is sent and the handler's locals are gone: what stays is the
\* publication asked for, the answer (status, notificacionesCreadas,
\* totalCompradores), whether the handler's own write had resolved and the
\* users whose cart rows it deleted
Fin(q, st) ==
  [Libre EXCEPT !.kind = q.kind, !.pc = "fin", !.status = st,
                !.ID_publicacion = q.ID_publicacion,
                !.notificacionesCreadas = q.notificacionesCreadas,
                !.totalCompradores = Len(q.compradores),
                !.primario = q.primario, !.borrados = q.borrados]

\* requests take the slots in order (the slots are interchangeable)
OrdenLibre(r) == reqs[r].pc = "libre" /\ (IF r = 1 THEN TRUE ELSE reqs[r - 1].pc # "libre")

\* ------------------------------------------ POST /agregar-carrito
\* line 543: articulo.id_vendedor && articulo.id_vendedor !== ID_usuario.
\* id_vendedor is the number read from com_ventas, ID_usuario the body field
DebeNotificarVendedor(id_vendedor, ID_usuario) ==
  id_vendedor # 0 /\ StrictNeq(Num(id_vendedor), ID_usuario)

\* the request arrives: validation of the body and the existence query
AgregarInicio(r, ju, p) ==
  /\ OrdenLibre(r)
  /\ LET q == [Libre EXCEPT !.kind = "agregar", !.ID_usuario = ju, !.ID_publicacion = p]
     IN reqs' = [reqs EXCEPT ![r] =
          IF Falsy(ju) THEN Fin(q, 400)
          ELSE IF SqlInt(ju) \notin usuario THEN Fin(q, 404)
          ELSE IF PubRows(p) = {} THEN Fin(q, 404)
          ELSE IF EnCarrito(SqlInt(ju), p) THEN Fin(q, 409)
          ELSE [q EXCEPT !.pc = "ac_datos"]]
  /\ UNCHANGED <<usuario, com_ventas, carrito, notificaciones, reloj, resp>>

\* the query for the article and its seller (com_ventas JOIN usuario)
AgregarDatos(r) ==
  /\ reqs[r].pc = "ac_datos"
  /\ LET q == reqs[r]
         rows == {c \in PubRows(q.ID_publicacion) : c.ID_usuario \in usuario}
     IN reqs' = [reqs EXCEPT ![r] =
          IF rows = {} THEN Fin(q, 404)
          ELSE [q EXCEPT !.pc = "ac_insert",
                         !.id_vendedor = (CHOOSE c \in rows : TRUE).ID_usuario]]
  /\ UNCHANGED <<usuario, com_ventas, carrito, notificaciones, reloj, resp>>

\* INSERT INTO carrito; when it resolves the handler decides, with no await
\* in between, whether the seller is notified
AgregarInsert(r, ok) ==
  /\ reqs[r].pc = "ac_insert"
  /\ LET q == reqs[r] IN
     IF ok
     THEN /\ carrito' = Append(carrito, [ID_usuario |-> SqlInt(q.ID_usuario),
                                         ID_publicacion |-> q.ID_publicacion])
          /\ reqs' = [reqs EXCEPT ![r] =
               IF DebeNotificarVendedor(q.id_vendedor, q.ID_usuario)
               THEN [q EXCEPT !.pc = "ac_notify", !.primario = TRUE]
               ELSE Fin([q EXCEPT !.primario = TRUE], 201)]
     ELSE /\ reqs' = [reqs EXCEPT ![r] = Fin(q, 500)]
          /\ UNCHANGED carrito
  /\ UNCHANGED <<usuario, com_ventas, notificaciones, reloj, resp>>

\* await guardarNotificacionBD(id_vendedor, ...) inside the handler's try:
\* a thrown error reaches the catch, which answers 500
AgregarNotificar(r, ok) ==
  /\ reqs[r].pc = "ac_notify"
  /\ LET q == reqs[r] IN
     /\ guardarNotificacionBD(ok, q.id_vendedor, "Nuevo interes en tu articulo",
                              q.ID_publicacion,
                              [tipo |-> "interes_carrito", ID_publicacion |-> q.ID_publicacion])
     /\ reqs' = [reqs EXCEPT ![r] =
          Fin(q, IF InsertaNotificacion(ok, q.id_vendedor) THEN 201 ELSE 500)]
  /\ UNCHANGED <<usuario, com_ventas, carrito, resp>>

\* --------------------------------------- DELETE /marcar-vendido/:id
\* line 658: comprador.id_usuario !== publicacion.id_usuario, both numbers
\* read from the database
NoEsVendedor(comprador, vendedor) == StrictNeq(Num(comprador), Num(vendedor))

RECURSIVE SiguienteComprador(_, _, _)
\* the position, from i on, of the next buyer the loop writes a record for
\* (Len + 1 when the loop is over)
SiguienteComprador(compradores, vendedor, i) ==
  IF i > Len(compradores) THEN i
  ELSE IF NoEsVendedor(compradores[i], vendedor) THEN i
  ELSE SiguienteComprador(compradores, vendedor, i + 1)

\* mutant of SigueBucle: a sale nobody had in the cart is answered 404
SigueBucle_SinCompradores404(q, i) ==
  LET j == SiguienteComprador(q.compradores, q.id_vendedor, i)
  IN IF Len(q.compradores) = 0 THEN Fin(q, 404)
     ELSE IF j > Len(q.compradores) THEN Fin([q EXCEPT !.i = j], 200)
     ELSE [q EXCEPT !.pc = "mv_notify", !.i = j]

\* the loop from position i: stop at the next await, or answer 200
SigueBucle(q, i) ==
  LET j == SiguienteComprador(q.compradores, q.id_vendedor, i)
  IN IF j > Len(q.compradores) THEN Fin([q EXCEPT !.i = j], 200)
     ELSE [q EXCEPT !.pc = "mv_notify", !.i = j]

\* the request arrives: the publication is read
VendidoInicio(r, p) ==
  /\ OrdenLibre(r)
  /\ LET q == [Libre EXCEPT !.kind = "vendido", !.ID_publicacion = p]
     IN reqs' = [reqs EXCEPT ![r] =
          IF PubRows(p) = {} THEN Fin(q, 404)
          ELSE [q EXCEPT !.pc = "mv_compradores",
                         !.id_vendedor = (CHOOSE c \in PubRows(p) : TRUE).ID_usuario]]
  /\ UNCHANGED <<usuario, com_ventas, carrito, notificaciones, reloj, resp>>

RECURSIVE Compradores(_, _)
\* SELECT c.ID_usuario FROM carrito c JOIN usuario u ... WHERE c.ID_publicacion = p
Compradores(s, p) ==
  IF s = <<>> THEN <<>>
  ELSE IF Head(s).ID_publicacion = p /\ Head(s).ID_usuario \in usuario
       THEN <<Head(s).ID_usuario>> \o Compradores(Tail(s), p)
       ELSE Compradores(Tail(s), p)

VendidoCompradores(r) ==
  /\ reqs[r].pc = "mv_compradores"
  /\ reqs' = [reqs EXCEPT ![r] =
       [reqs[r] EXCEPT !.pc = "mv_tx",
                       !.compradores = Compradores(carrito, reqs[r].ID_publicacion)]]
  /\ UNCHANGED <<usuario, com_ventas, carrito, notificaciones, reloj, resp>>

\* mutant of VendidoTx: the catch of the transaction rolls back and does not
\* return, so the handler goes on to notify the buyers
VendidoTx_SigueTrasRollback(r, ok) ==
  /\ reqs[r].pc = "mv_tx"
  /\ LET q == reqs[r] IN
     IF ok
     THEN /\ com_ventas' = com_ventas \ PubRows(q.ID_publicacion)
          /\ carrito' = SeqFilterPub(carrito, q.ID_publicacion, FALSE)
          /\ reqs' = [reqs EXCEPT ![r] =
               SigueBucle([q EXCEPT !.primario = TRUE,
                                    !.borrados = DuenosDe(carrito, q.ID_publicacion)], 1)]
     ELSE /\ reqs' = [reqs EXCEPT ![r] = SigueBucle(q, 1)]
          /\ UNCHANGED <<com_ventas, carrito>>
  /\ UNCHANGED <<usuario, notificaciones, reloj, resp>>

\* BEGIN; DELETE FROM com_ventas; DELETE FROM carrito; COMMIT, or ROLLBACK and
\* the answer 500 when a statement rejects
VendidoTx(r, ok) ==
  /\ reqs[r].pc = "mv_tx"
  /\ LET q == reqs[r] IN
     IF ok
     THEN /\ com_ventas' = com_ventas \ PubRows(q.ID_publicacion)
          /\ carrito' = SeqFilterPub(carrito, q.ID_publicacion, FALSE)
          /\ reqs' = [reqs EXCEPT ![r] =
               SigueBucle([q EXCEPT !.primario = TRUE,
                                    !.borrados = DuenosDe(carrito, q.ID_publicacion)], 1)]
     ELSE /\ reqs' = [reqs EXCEPT ![r] = Fin(q, 500)]
          /\ UNCHANGED <<com_ventas, carrito>>
  /\ UNCHANGED <<usuario, notificaciones, reloj, resp>>

\* one iteration of the loop that awaits guardarNotificacionBD; the loop has
\* no try of its own, so a thrown error leaves it for the outer catch (500)
VendidoNotificar(r, ok) ==
  /\ reqs[r].pc = "mv_notify"
  /\ LET q == reqs[r]
         u == q.compradores[q.i]
     IN /\ guardarNotificacionBD(ok, u, "Articulo ya no disponible", q.ID_publicacion,
                                 [tipo |-> "articulo_vendido",
                                  ID_publicacion |-> q.ID_publicacion])
        /\ reqs' = [reqs EXCEPT ![r] =
             IF InsertaNotificacion(ok, u)
             THEN SigueBucle([q EXCEPT !.notificacionesCreadas = @ + 1], q.i + 1)
             ELSE Fin(q, 500)]
  /\ UNCHANGED <<usuario, com_ventas, carrito, resp>>

\* ------------------------------------------- DELETE /eliminar-carrito
\* the request arrives: validation of the body and the existence query
EliminarInicio(r, ju, p) ==
  /\ OrdenLibre(r)
  /\ LET q == [Libre EXCEPT !.kind = "eliminar", !.ID_usuario = ju, !.ID_publicacion = p]
     IN reqs' = [reqs EXCEPT ![r] =
          IF Falsy(ju) THEN Fin(q, 400)
          ELSE IF ~EnCarrito(SqlInt(ju), p) THEN Fin(q, 404)
          ELSE [q EXCEPT !.pc = "ec_delete"]]
  /\ UNCHANGED <<usuario, com_ventas, carrito, notificaciones, reloj, resp>>

\* DELETE FROM carrito WHERE ID_usuario = $1 AND ID_publicacion = $2: every
\* row of the pair goes; 200 also when a concurrent request left none
EliminarDelete(r, ok) ==
  /\ reqs[r].pc = "ec_delete"
  /\ LET q == reqs[r] IN
     IF ok
     THEN /\ carrito' = SelectSeq(carrito,
                          LAMBDA c : ~(c.ID_usuario = SqlInt(q.ID_usuario)
                                       /\ c.ID_publicacion = q.ID_publicacion))
          /\ reqs' = [reqs EXCEPT ![r] = Fin([q EXCEPT !.primario = TRUE], 200)]
     ELSE /\ reqs' = [reqs EXCEPT ![r] = Fin(q, 500)]
          /\ UNCHANGED carrito
  /\ UNCHANGED <<usuario, com_ventas, notificaciones, reloj, resp>>

\* ----------------------------------------- POST /probar-notificacion
\* 400 without ID_usuario; otherwise one guardarNotificacionBD, answered 200,
\* or 500 when it threw
ProbarNotificacion(ju, ok) ==
  /\ Len(notificaciones) < MaxNotif
  /\ IF Falsy(ju)
     THEN UNCHANGED <<notificaciones, reloj>>
     ELSE guardarNotificacionBD(ok, SqlInt(ju), "Notificacion de prueba", 0,
                                [tipo |-> "test", ID_publicacion |-> 0])
  /\ UNCHANGED <<usuario, com_ventas, carrito, reqs, resp>>

\* ------------------------------------- PUT /notificaciones/:id/leida
\* mutant of MarcarLeidaUpdate: SET leida = NOT leida
MarcarLeidaUpdate_Alterna(store, id) ==
  [k \in DOMAIN store |->
     IF store[k].ID_notificacion = id THEN [store[k] EXCEPT !.leida = ~@] ELSE store[k]]

\* mutant of MarcarLeidaUpdate: the UPDATE has no WHERE clause
MarcarLeidaUpdate_SinWhere(store, id) ==
  [k \in DOMAIN store |-> [store[k] EXCEPT !.leida = TRUE]]

\* UPDATE notificaciones SET leida = true WHERE ID_notificacion = id
MarcarLeidaUpdate(store, id) ==
  [k \in DOMAIN store |->
     IF store[k].ID_notificacion = id THEN [store[k] EXCEPT !.leida = TRUE] ELSE store[k]]

\* the columns both notification queries return (ID_usuario is not among them)
Proyeccion(n) ==
  [id_notificacion |-> n.ID_notificacion, titulo |-> n.titulo, cuerpo |-> n.cuerpo,
   leida |-> n.leida, fecha_envio |-> n.fecha_envio, data |-> n.data]

\* ... RETURNING: the rows the UPDATE touched, as they are after it
MarcarLeidaReturning(store, id) ==
  LET rows == SelectSeq(MarcarLeidaUpdate(store, id), LAMBDA n : n.ID_notificacion = id)
  IN [k \in DOMAIN rows |-> Proyeccion(rows[k])]

\* 404 when rowCount is 0, otherwise 200 with the first row returned
MarcarLeida(id) ==
  /\ notificaciones' = MarcarLeidaUpdate(notificaciones, id)
  /\ LET rows == MarcarLeidaReturning(notificaciones, id)
     IN resp' = IF Len(rows) = 0 THEN [status |-> 404, cuerpo |-> <<>>]
                ELSE [status |-> 200, cuerpo |-> <<rows[1]>>]
  /\ UNCHANGED <<usuario, com_ventas, carrito, reloj, reqs>>

\* ------------------------------------- DELETE /eliminar-usuario/:id
\* rows of other tables that name the user
Referenciado(u) ==
  \/ \E c \in com_ventas : c.ID_usuario = u
  \/ \E k \in DOMAIN carrito : carrito[k].ID_usuario = u
  \/ \E k \in DOMAIN notificaciones : notificaciones[k].ID_usuario = u

\* DELETE FROM usuario WHERE ID_usuario = id.  The delete is taken when no row
\* names the user, which every schema allows; with such rows the statement
\* rejects on the foreign key and the handler answers 500
EliminarUsuario(u) ==
  /\ usuario' = IF Referenciado(u) THEN usuario ELSE usuario \ {u}
  /\ cuentas' = IF Referenciado(u) THEN cuentas
                ELSE {c \in cuentas : c.ID_usuario # u}
  /\ UNCHANGED <<com_ventas, carrito, notificaciones, reloj, reqs, resp>>

\* ------------------------------------------------------ POST /registrar
\* what the account handlers leave alone
mercado == <<com_ventas, carrito, notificaciones, reloj, reqs, resp>>

Fotos == {"ninguna", "invalida", "valida"}

\* the response is sent and, in the finally, the connection released
RegFin(st) == [RegLibre EXCEPT !.pc = "fin", !.status = st]

\* client.release(): the connection goes back to the pool as it is
Release(c) == [conexiones EXCEPT ![c].prestada = FALSE]

RegOrdenLibre(r) ==
  regs[r].pc = "libre" /\ (IF r = 1 THEN TRUE ELSE regs[r - 1].pc # "libre")

\* the id the sequence of usuario gives the next row
NuevoId ==
  LET ids == usuario \cup {f.ID_usuario : f \in UNION {conexiones[c].pendiente : c \in Conns}}
  IN IF ids = {} THEN 1 ELSE (CHOOSE m \in ids : \A n \in ids : n <= m) + 1

\* validarCamposUsuario answers 400 on a missing or malformed field; otherwise
\* the handler takes a connection: pool.connect() resolves with an idle one
RegInicio(r, valido, correo, clave, foto) ==
  /\ RegOrdenLibre(r)
  /\ IF ~valido
     THEN /\ regs' = [regs EXCEPT ![r] = RegFin(400)]
          /\ UNCHANGED conexiones
     ELSE \E c \in Conns :
            /\ ~conexiones[c].prestada
            /\ conexiones' = [conexiones EXCEPT ![c].prestada = TRUE]
            /\ regs' = [regs EXCEPT ![r] =
                 [RegLibre EXCEPT !.pc = "rg_existe", !.client = c, !.correo = correo,
                                  !.clave = clave, !.foto = foto]]
  /\ UNCHANGED <<usuario, cuentas, mercado>>

\* SELECT 1 FROM usuario WHERE correo = $1: 409 when there is a row; a rejected
\* query goes to the catch
RegExiste(r, ok) ==
  /\ regs[r].pc = "rg_existe"
  /\ LET q == regs[r] IN
     IF ~ok
     THEN /\ regs' = [regs EXCEPT ![r].pc = "rg_rollback"]
          /\ UNCHANGED conexiones
     ELSE IF \E f \in cuentas : f.correo = q.correo
     THEN /\ regs' = [regs EXCEPT ![r] = RegFin(409)]
          /\ conexiones' = Release(q.client)
     ELSE /\ regs' = [regs EXCEPT ![r].pc = "rg_begin"]
          /\ UNCHANGED conexiones
  /\ UNCHANGED <<usuario, cuentas, mercado>>

\* client.query('BEGIN'), then with no await the format of foto is tested: a
\* foto that is no data URL is answered 400 by a return inside the try
RegBegin(r) ==
  /\ regs[r].pc = "rg_begin"
  /\ LET q == regs[r]
         abierta == [conexiones EXCEPT ![q.client].tx = TRUE]
     IN IF q.foto = "invalida"
        THEN /\ regs' = [regs EXCEPT ![r] = RegFin(400)]
             /\ conexiones' = [abierta EXCEPT ![q.client].prestada = FALSE]
        ELSE /\ regs' = [regs EXCEPT ![r].pc =
                  IF q.foto = "valida" THEN "rg_subir" ELSE "rg_insert"]
             /\ conexiones' = abierta
  /\ UNCHANGED <<usuario, cuentas, mercado>>

Subidas == {"ok", "uploadError", "throw"}

\* supabase.storage.upload: it resolves with or without uploadError, or throws;
\* uploadError is answered 500 by a return inside the try
RegSubir(r, res) ==
  /\ regs[r].pc = "rg_subir"
  /\ LET q == regs[r] IN
     IF res = "uploadError"
     THEN /\ regs' = [regs EXCEPT ![r] = RegFin(500)]
          /\ conexiones' = Release(q.client)
     ELSE /\ regs' = [regs EXCEPT ![r].pc = IF res = "ok" THEN "rg_insert" ELSE "rg_rollback"]
          /\ UNCHANGED conexiones
  /\ UNCHANGED <<usuario, cuentas, mercado>>

\* INSERT INTO usuario ... on the connection: the row waits for the COMMIT
RegInsert(r, ok) ==
  /\ regs[r].pc = "rg_insert"
  /\ LET q == regs[r] IN
     IF ok
     THEN /\ conexiones' = [conexiones EXCEPT ![q.client].pendiente =
                              @ \cup {[ID_usuario |-> NuevoId, correo |-> q.correo,
                                       contrasena |-> q.clave]}]
          /\ regs' = [regs EXCEPT ![r].pc = "rg_commit"]
     ELSE /\ regs' = [regs EXCEPT ![r].pc = "rg_rollback"]
          /\ UNCHANGED conexiones
  /\ UNCHANGED <<usuario, cuentas, mercado>>

\* client.query('COMMIT'): the rows of the transaction are stored, 201
RegCommit(r, ok) ==
  /\ regs[r].pc = "rg_commit"
  /\ LET q == regs[r] IN
     IF ok
     THEN /\ cuentas' = cuentas \cup conexiones[q.client].pendiente
          /\ usuario' = usuario \cup {f.ID_usuario : f \in conexiones[q.client].pendiente}
          /\ conexiones' = [conexiones EXCEPT ![q.client] = ConexionLibre]
          /\ regs' = [regs EXCEPT ![r] = RegFin(201)]
     ELSE /\ regs' = [regs EXCEPT ![r].pc = "rg_rollback"]
          /\ UNCHANGED <<usuario, cuentas, conexiones>>
  /\ UNCHANGED mercado

\* the catch: client.query('ROLLBACK'), 500
RegRollback(r) ==
  /\ regs[r].pc = "rg_rollback"
  /\ conexiones' = [conexiones EXCEPT ![regs[r].client] = ConexionLibre]
  /\ regs' = [regs EXCEPT ![r] = RegFin(500)]
  /\ UNCHANGED <<usuario, cuentas, mercado>>

\* ------------------- POST /enviar-correo-reset, /restablecer-contrasena
\* the code a request body carries: a JSON string, a JSON number, or none
JsonCodigos == {Str(c) : c \in Codigos} \cup {Num(c) : c \in Codigos} \cup {Ausente}

\* the response is sent; what stays of the request is its answer
ResetFin(q, st) == [ResetLibre EXCEPT !.kind = q.kind, !.pc = "fin", !.status = st]

ResetOrdenLibre(r) ==
  resets[r].pc = "libre" /\ (IF r = 1 THEN TRUE ELSE resets[r - 1].pc # "libre")

\* SELECT * FROM usuario WHERE correo = $1: 404 without a row, 500 when the
\* query rejects; otherwise the code is drawn and stored as a string before
\* the mail is sent
EnviarCorreoReset(r, correo, codigo, ok) ==
  /\ ResetOrdenLibre(r)
  /\ LET q == [ResetLibre EXCEPT !.kind = "enviar", !.correo = correo] IN
     IF ~ok
     THEN /\ resets' = [resets EXCEPT ![r] = ResetFin(q, 500)]
          /\ UNCHANGED codigosReset
     ELSE IF ~\E f \in cuentas : f.correo = correo
     THEN /\ resets' = [resets EXCEPT ![r] = ResetFin(q, 404)]
          /\ UNCHANGED codigosReset
     ELSE /\ resets' = [resets EXCEPT ![r] = [q EXCEPT !.pc = "er_send"]]
          /\ codigosReset' = [codigosReset EXCEPT ![correo] = Str(codigo)]
  /\ UNCHANGED <<usuario, cuentas, mercado, conexiones, regs>>

\* resend.emails.send: 200, or 500 when it throws; the code stays stored
EnviarSend(r, ok) ==
  /\ resets[r].pc = "er_send"
  /\ resets' = [resets EXCEPT ![r] = ResetFin(resets[r], IF ok THEN 200 ELSE 500)]
  /\ UNCHANGED <<usuario, cuentas, mercado, conexiones, regs, codigosReset>>

\* line 249: !codigoGuardado || codigoGuardado !== codigo
CodigoRechazado(codigoGuardado, codigo) ==
  Falsy(codigoGuardado) \/ StrictNeq(codigoGuardado, codigo)

\* the request arrives: the code is compared with no await, 400 or the UPDATE
RestablecerInicio(r, correo, codigo, clave) ==
  /\ ResetOrdenLibre(r)
  /\ LET q == [ResetLibre EXCEPT !.kind = "restablecer", !.correo = correo,
                                 !.codigo = codigo, !.clave = clave]
     IN resets' = [resets EXCEPT ![r] =
          IF CodigoRechazado(codigosReset[correo], codigo) THEN ResetFin(q, 400)
          ELSE [q EXCEPT !.pc = "rc_update"]]
  /\ UNCHANGED <<usuario, cuentas, mercado, conexiones, regs, codigosReset>>

\* UPDATE usuario SET "contraseña" = $1 WHERE correo = $2, then
\* codigosReset.delete(correo) and 200; 500 when the UPDATE rejects
RestablecerUpdate(r, ok) ==
  /\ resets[r].pc = "rc_update"
  /\ LET q == resets[r] IN
     IF ok
     THEN /\ cuentas' = {IF f.correo = q.correo THEN [f EXCEPT !.contrasena = q.clave]
                         ELSE f : f \in cuentas}
          /\ codigosReset' = [codigosReset EXCEPT ![q.correo] = Ausente]
          /\ resets' = [resets EXCEPT ![r] = ResetFin(q, 200)]
     ELSE /\ resets' = [resets EXCEPT ![r] = ResetFin(q, 500)]
          /\ UNCHANGED <<cuentas, codigosReset>>
  /\ UNCHANGED <<usuario, mercado, conexiones, regs>>

\* ---------------------------------------- GET /notificaciones/:id_usuario
Min(a, b) == IF a < b THEN a ELSE b

\* mutant of Primera: ORDER BY fecha_envio ASC
Primera_MasAntigua(s, empate) ==
  CHOOSE k \in DOMAIN s :
    \A j \in DOMAIN s :
      \/ s[k].fecha_envio < s[j].fecha_envio
      \/ /\ s[k].fecha_envio = s[j].fecha_envio
         /\ IF empate = "asc" THEN s[k].ID_notificacion <= s[j].ID_notificacion
            ELSE s[k].ID_notificacion >= s[j].ID_notificacion

\* the row ORDER BY fecha_envio DESC puts first.  SQL leaves the order of rows
\* with equal fecha_envio open: empate is the order the database happens to use
Primera(s, empate) ==
  CHOOSE k \in DOMAIN s :
    \A j \in DOMAIN s :
      \/ s[k].fecha_envio > s[j].fecha_envio
      \/ /\ s[k].fecha_envio = s[j].fecha_envio
         /\ IF empate = "asc" THEN s[k].ID_notificacion <= s[j].ID_notificacion
            ELSE s[k].ID_notificacion >= s[j].ID_notificacion

RECURSIVE OrdenarDesc(_, _)
OrdenarDesc(s, empate) ==
  IF s = <<>> THEN <<>>
  ELSE LET k == Primera(s, empate)
       IN <<s[k]>> \o OrdenarDesc(SubSeq(s, 1, k - 1) \o SubSeq(s, k + 1, Len(s)), empate)

\* WHERE ID_usuario = $1 ORDER BY fecha_envio DESC LIMIT 50
ListarConsulta(store, u, empate) ==
  LET suyas == SelectSeq(store, LAMBDA n : n.ID_usuario = u)
      orden == OrdenarDesc(suyas, empate)
      filas == SubSeq(orden, 1, Min(LIMIT, Len(orden)))
  IN [k \in DOMAIN filas |-> Proyeccion(filas[k])]

ListarNotificaciones(u, empate) ==
  /\ resp' = [status |-> 200, cuerpo |-> ListarConsulta(notificaciones, u, empate)]
  /\ UNCHANGED <<usuario, com_ventas, carrito, notificaciones, reloj, reqs>>

Empates == {"asc", "desc"}

\* ------------------------------------------------------ specification
\* The marketplace requests, interleaved at their awaits, and mark-as-read
Next ==
  \/ \E r \in Reqs, ju \in JsonIds, p \in Pubs : AgregarInicio(r, ju, p) /\ UNCHANGED <<cuentas, registro>>
  \/ \E r \in Reqs : AgregarDatos(r) /\ UNCHANGED <<cuentas, registro>>
  \/ \E r \in Reqs, ok \in BOOLEAN : AgregarInsert(r, ok) /\ UNCHANGED <<cuentas, registro>>
  \/ \E r \in Reqs, ok \in BOOLEAN : AgregarNotificar(r, ok) /\ UNCHANGED <<cuentas, registro>>
  \/ \E r \in Reqs, p \in Pubs : VendidoInicio(r, p) /\ UNCHANGED <<cuentas, registro>>
  \/ \E r \in Reqs : VendidoCompradores(r) /\ UNCHANGED <<cuentas, registro>>
  \/ \E r \in Reqs, ok \in BOOLEAN : VendidoTx(r, ok) /\ UNCHANGED <<cuentas, registro>>
  \/ \E r \in Reqs, ok \in BOOLEAN : VendidoNotificar(r, ok) /\ UNCHANGED <<cuentas, registro>>
  \/ \E id \in 1..(Len(notificaciones) + 1) : MarcarLeida(id) /\ UNCHANGED <<cuentas, registro>>

Spec == Init /\ [][Next]_vars

\* The handlers of the notification store on their own: test notifications
\* written for any user, marked as read and listed, and users deleted
NextNotif ==
  \/ \E ju \in JsonIds, ok \in BOOLEAN : ProbarNotificacion(ju, ok) /\ UNCHANGED <<cuentas, registro>>
  \/ \E id \in 1..(Len(notificaciones) + 1) : MarcarLeida(id) /\ UNCHANGED <<cuentas, registro>>
  \/ \E u \in Users, e \in Empates : ListarNotificaciones(u, e) /\ UNCHANGED <<cuentas, registro>>
  \/ \E u \in Users : EliminarUsuario(u) /\ UNCHANGED registro

SpecNotif == Init /\ [][NextNotif]_vars

\* The listing query over stores of up to MaxList test notifications: n rows,
\* every m-th of user 1 and the others of user 2, g rows per clock tick, the
\* even ones read
TiendaDePrueba(n, m, g) ==
  [k \in 1..n |->
     [FilaNotificacion(SubSeq(<<>>, 1, 0), IF k % m = 0 THEN 1 ELSE 2,
                       "Notificacion de prueba", 0,
                       [tipo |-> "test", ID_publicacion |-> 0], (k + g - 1) \div g)
        EXCEPT !.ID_notificacion = k, !.leida = (k % 2 = 0)]]

InitListFor ==
  /\ usuario = Users
  /\ com_ventas = {[ID_publicacion |-> p, ID_usuario |-> Owner(p)] : p \in Pubs}
  /\ carrito = <<>>
  /\ \E n \in 0..MaxList, m \in 1..3, g \in 1..2 :
       /\ notificaciones = TiendaDePrueba(n, m, g)
       /\ reloj = (n + g - 1) \div g
  /\ reqs = [r \in Reqs |-> Libre]
  /\ resp = SinRespuesta
  /\ InitCuentas

NextListFor == \E u \in Users, e \in Empates : ListarNotificaciones(u, e) /\ UNCHANGED <<cuentas, registro>>

SpecListFor == InitListFor /\ [][NextListFor]_vars

\* The cart on its own: adds and removals interleaved at their awaits
NextCarrito ==
  \/ \E r \in Reqs, ju \in JsonIds, p \in Pubs : AgregarInicio(r, ju, p) /\ UNCHANGED <<cuentas, registro>>
  \/ \E r \in Reqs : AgregarDatos(r) /\ UNCHANGED <<cuentas, registro>>
  \/ \E r \in Reqs, ok \in BOOLEAN : AgregarInsert(r, ok) /\ UNCHANGED <<cuentas, registro>>
  \/ \E r \in Reqs, ok \in BOOLEAN : AgregarNotificar(r, ok) /\ UNCHANGED <<cuentas, registro>>
  \/ \E r \in Reqs, ju \in JsonIds, p \in Pubs : EliminarInicio(r, ju, p) /\ UNCHANGED <<cuentas, registro>>
  \/ \E r \in Reqs, ok \in BOOLEAN : EliminarDelete(r, ok) /\ UNCHANGED <<cuentas, registro>>

SpecCarrito == Init /\ [][NextCarrito]_vars

\* registrar requests interleaved at their awaits
NextRegistro ==
  \/ \E r \in CuentaReqs, v \in BOOLEAN, c \in Correos, k \in Claves, f \in Fotos :
       RegInicio(r, v, c, k, f) /\ UNCHANGED reinicio
  \/ \E r \in CuentaReqs, ok \in BOOLEAN : RegExiste(r, ok) /\ UNCHANGED reinicio
  \/ \E r \in CuentaReqs : RegBegin(r) /\ UNCHANGED reinicio
  \/ \E r \in CuentaReqs, res \in Subidas : RegSubir(r, res) /\ UNCHANGED reinicio
  \/ \E r \in CuentaReqs, ok \in BOOLEAN : RegInsert(r, ok) /\ UNCHANGED reinicio
  \/ \E r \in CuentaReqs, ok \in BOOLEAN : RegCommit(r, ok) /\ UNCHANGED reinicio
  \/ \E r \in CuentaReqs : RegRollback(r) /\ UNCHANGED reinicio

SpecRegistro == Init /\ [][NextRegistro]_vars

\* the password reset: requests for a code and resets, interleaved at their
\* awaits
NextReset ==
  \/ \E r \in CuentaReqs, c \in Correos, k \in Codigos, ok \in BOOLEAN :
       EnviarCorreoReset(r, c, k, ok)
  \/ \E r \in CuentaReqs, ok \in BOOLEAN : EnviarSend(r, ok)
  \/ \E r \in CuentaReqs, c \in Correos, k \in JsonCodigos, p \in Claves :
       RestablecerInicio(r, c, k, p)
  \/ \E r \in CuentaReqs, ok \in BOOLEAN : RestablecerUpdate(r, ok)

SpecReset == Init /\ [][NextReset]_vars

\* ============================================================ claims
\* the users a marcar-vendido request targets: the buyers it read, deduplicated,
\* without the seller
Audiencia(q) == {q.compradores[k] : k \in DOMAIN q.compradores} \ {q.id_vendedor}

\* request r took a step that stored a notification
Escribe(r) == reqs'[r] # reqs[r] /\ Len(notificaciones') = Len(notificaciones) + 1

\* the notification a step stored
Nueva == notificaciones'[Len(notificaciones')]

\* C1: a marcar-vendido fan-out over a non-empty audience U that ends in
\* success has stored exactly one record per user of U, |U| in all, and every
\* record it stored is for a user of U.
C1_UnRegistroPorUsuario ==
  [][\A r \in Reqs :
       /\ (reqs[r].pc = "mv_notify" /\ Escribe(r)) => Nueva.ID_usuario \in Audiencia(reqs[r])
       /\ (reqs[r].pc = "mv_notify" /\ reqs'[r].pc = "fin" /\ reqs'[r].status = 200)
            => reqs'[r].notificacionesCreadas = Cardinality(Audiencia(reqs[r]))]_vars

\* C2: when the write for one buyer fails and a later buyer is still to be
\* notified, the loop of marcar-vendido goes on to that buyer.
C2_FalloNoAborta ==
  [][\A r \in Reqs :
       LET q == reqs[r] IN
       (/\ q.pc = "mv_notify"
        /\ reqs'[r] # q
        /\ notificaciones' = notificaciones
        /\ SiguienteComprador(q.compradores, q.id_vendedor, q.i + 1) <= Len(q.compradores))
         => (reqs'[r].pc = "mv_notify" /\ reqs'[r].i > q.i)]_vars

\* C3: a request whose own write (the cart row, the delete transaction) went
\* through never ends in an error response: a failed notification write is
\* not thrown to the caller.
C3_ErrorNoLanzado ==
  \A r \in Reqs : (reqs[r].pc = "fin" /\ reqs[r].primario) => reqs[r].status < 500

\* C4: a request stores a notification only after its own write went through
\* (the cart row appended, the publication and its cart rows deleted); a
\* marcar-vendido whose transaction rolls back answers 500 with the
\* publications, the cart and the notifications as they were, and has stored
\* no notification.
C4_FanOutTrasEscritura ==
  [][\A r \in Reqs :
       LET q == reqs[r] IN
       /\ Escribe(r) => q.primario
       /\ (~q.primario /\ reqs'[r].primario /\ q.kind = "agregar")
            => /\ q.pc = "ac_insert"
               /\ carrito' = Append(carrito, [ID_usuario |-> SqlInt(q.ID_usuario),
                                              ID_publicacion |-> q.ID_publicacion])
               /\ notificaciones' = notificaciones
       /\ (~q.primario /\ reqs'[r].primario /\ q.kind = "vendido")
            => /\ q.pc = "mv_tx"
               /\ \A c \in com_ventas' : c.ID_publicacion # q.ID_publicacion
               /\ \A k \in DOMAIN carrito' : carrito'[k].ID_publicacion # q.ID_publicacion
               /\ notificaciones' = notificaciones
       /\ (q.pc = "mv_tx" /\ reqs'[r].pc = "fin" /\ ~reqs'[r].primario)
            => /\ reqs'[r].status = 500
               /\ reqs'[r].notificacionesCreadas = 0
               /\ UNCHANGED <<com_ventas, carrito, notificaciones>>]_vars

\* a marcar-vendido request committed and then notified a buyer
C4_Witness ==
  \E r \in Reqs :
    /\ reqs[r].kind = "vendido" /\ reqs[r].pc = "fin" /\ reqs[r].primario
    /\ reqs[r].notificacionesCreadas >= 1

\* C5: no request stores a notification for its own actor: agregar-carrito
\* none for the user who adds the item, marcar-vendido none for the seller.
C5_SinAutoNotificacion ==
  [][\A r \in Reqs :
       /\ (reqs[r].pc = "ac_notify" /\ Escribe(r))
            => Nueva.ID_usuario # SqlInt(reqs[r].ID_usuario)
       /\ (reqs[r].pc = "mv_notify" /\ Escribe(r))
            => Nueva.ID_usuario # reqs[r].id_vendedor]_vars

\* C10: a marcar-vendido request with nobody to notify (no buyer read, or only
\* the seller) answers 200 with notificacionesCreadas = 0 as soon as its
\* transaction commits, and stores no notification.
C10_AudienciaVacia ==
  [][\A r \in Reqs :
       LET q == reqs[r] IN
       (q.pc = "mv_tx" /\ reqs'[r] # q /\ reqs'[r].primario /\ Audiencia(q) = {})
         => /\ reqs'[r].pc = "fin"
            /\ reqs'[r].status = 200
            /\ reqs'[r].notificacionesCreadas = 0
            /\ reqs'[r].totalCompradores = Len(q.compradores)
            /\ notificaciones' = notificaciones]_vars

\* a marcar-vendido request for a publication in nobody's cart has answered 200
C10_Witness ==
  \E r \in Reqs :
    /\ reqs[r].kind = "vendido" /\ reqs[r].pc = "fin" /\ reqs[r].status = 200
    /\ reqs[r].totalCompradores = 0 /\ reqs[r].notificacionesCreadas = 0

\* the positions of the rows of store with this ID_notificacion
ConId(store, id) == {k \in DOMAIN store : store[k].ID_notificacion = id}

\* C6: mark-as-read on a record that is already read answers 200 with the
\* record, still read, and changes nothing; marking twice leaves the store and
\* the rows returned as marking once does.
C6_MarcarLeidaIdempotente ==
  [][\A id \in 1..(Len(notificaciones) + 1) :
       MarcarLeida(id) =>
         /\ MarcarLeidaUpdate(notificaciones', id) = notificaciones'
         /\ MarcarLeidaReturning(notificaciones', id) = MarcarLeidaReturning(notificaciones, id)
         /\ \A k \in ConId(notificaciones, id) :
              notificaciones[k].leida =>
                /\ notificaciones' = notificaciones
                /\ resp'.status = 200
                /\ resp'.cuerpo = <<Proyeccion(notificaciones[k])>>
                /\ resp'.cuerpo[1].leida]_vars

\* a record is read and the last answer is 200 with that record: the next
\* mark-as-read of it is the repeated call
C6_Witness ==
  \E k \in DOMAIN notificaciones :
    /\ notificaciones[k].leida
    /\ resp = [status |-> 200, cuerpo |-> <<Proyeccion(notificaciones[k])>>]

\* C7: mark-as-read with an id no record has answers 404 and changes no
\* record; with an existing id it answers 200, sets leida of that record and
\* changes nothing else.
C7_MarcarLeidaSoloEse ==
  [][\A id \in 1..(Len(notificaciones) + 1) :
       MarcarLeida(id) =>
         LET hits == ConId(notificaciones, id) IN
         /\ hits = {} => (resp'.status = 404 /\ notificaciones' = notificaciones)
         /\ hits # {} =>
              /\ resp'.status = 200
              /\ DOMAIN notificaciones' = DOMAIN notificaciones
              /\ \A k \in DOMAIN notificaciones :
                   notificaciones'[k] =
                     IF k \in hits THEN [notificaciones[k] EXCEPT !.leida = TRUE]
                     ELSE notificaciones[k]]_vars

\* the answer is 404 while the store holds an unread record
C7_Witness ==
  /\ resp.status = 404
  /\ \E k \in DOMAIN notificaciones : ~notificaciones[k].leida

\* C8: in every step the records stay where they are with their id, owner,
\* title, body, payload and date; a record that is read stays read; a new
\* record is unread; and a record becomes read only in a mark-as-read step.
C8_RegistroInmutable ==
  [][/\ Len(notificaciones') >= Len(notificaciones)
     /\ \A k \in DOMAIN notificaciones :
          /\ [notificaciones'[k] EXCEPT !.leida = FALSE]
               = [notificaciones[k] EXCEPT !.leida = FALSE]
          /\ notificaciones[k].leida => notificaciones'[k].leida
     /\ \A k \in DOMAIN notificaciones' \ DOMAIN notificaciones : ~notificaciones'[k].leida
     /\ (\E k \in DOMAIN notificaciones : ~notificaciones[k].leida /\ notificaciones'[k].leida)
          => \E id \in DOMAIN notificaciones : MarcarLeida(id)]_vars

\* a record has been read while another one, stored after it, is unread
C8_Witness ==
  \E k, j \in DOMAIN notificaciones :
    k < j /\ notificaciones[k].leida /\ ~notificaciones[j].leida

\* C9: the listing for user u answers with rows of u only, each once, as many
\* as u has up to 50, newest first, none of the rows left out newer than a
\* row returned, and changes no record.
C9_ListarNotificaciones ==
  [][\A u \in Users, e \in Empates :
       ListarNotificaciones(u, e) =>
         LET filas == resp'.cuerpo
             suyas == {k \in DOMAIN notificaciones : notificaciones[k].ID_usuario = u}
             devueltas == {k \in suyas : \E j \in DOMAIN filas :
                             filas[j].id_notificacion = notificaciones[k].ID_notificacion}
         IN /\ resp'.status = 200
            /\ \A j \in DOMAIN filas : \E k \in suyas : filas[j] = Proyeccion(notificaciones[k])
            /\ \A i, j \in DOMAIN filas :
                 i # j => filas[i].id_notificacion # filas[j].id_notificacion
            /\ Len(filas) = Min(50, Cardinality(suyas))
            /\ \A j \in 1..(Len(filas) - 1) : filas[j].fecha_envio >= filas[j + 1].fecha_envio
            /\ \A k \in suyas \ devueltas, j \in DOMAIN filas :
                 filas[j].fecha_envio >= notificaciones[k].fecha_envio
            /\ notificaciones' = notificaciones]_vars

\* a user with more than 50 records has been answered with 50 of them
C9_Witness ==
  /\ resp.status = 200
  /\ Len(resp.cuerpo) = 50
  /\ \E u \in Users :
       /\ Cardinality({k \in DOMAIN notificaciones : notificaciones[k].ID_usuario = u}) > 50
       /\ \E k \in DOMAIN notificaciones :
            /\ notificaciones[k].ID_usuario = u
            /\ notificaciones[k].ID_notificacion = resp.cuerpo[1].id_notificacion

\* the cart-interest records written so far
Intereses(store) == {k \in DOMAIN store : store[k].data.tipo = "interes_carrito"}

\* C15: after any interleaving of agregar-carrito and eliminar-carrito
\* requests the cart holds at most one row per (user, publication) pair and
\* the seller has at most one cart-interest record per row inserted; an add
\* answered 409 changes neither the cart nor the notifications.
C15_CarritoUnico ==
  [][/\ \A j, k \in DOMAIN carrito' : j # k => carrito'[j] # carrito'[k]
     /\ Cardinality(Intereses(notificaciones')) <=
          Cardinality({r \in Reqs : reqs'[r].kind = "agregar" /\ reqs'[r].primario})
     /\ \A r \in Reqs :
          reqs[r].pc = "libre" /\ reqs'[r].kind = "agregar" /\ reqs'[r].status = 409
            => UNCHANGED <<carrito, notificaciones>>]_vars

\* the 'article sold' records of publication p
Vendidos(store, p) ==
  {store[k].ID_usuario :
     k \in {j \in DOMAIN store : /\ store[j].data.tipo = "articulo_vendido"
                                 /\ store[j].data.ID_publicacion = p}}

\* C16: when marcar-vendido has answered success, every user other than the
\* seller whose cart row its transaction deleted has an 'article sold' record
\* of that publication, also when an agregar-carrito committed between the
\* buyer lookup and the transaction.
C16_BorradoNotificado ==
  \A r \in Reqs :
    reqs[r].kind = "vendido" /\ reqs[r].pc = "fin" /\ reqs[r].status = 200
      => \A u \in reqs[r].borrados :
           u # Owner(reqs[r].ID_publicacion)
             => u \in Vendidos(notificaciones, reqs[r].ID_publicacion)

\* C17: once marcar-vendido has answered success for publication P, no cart
\* row names P in any later state.
C17_SinFilasTrasVenta ==
  \A r \in Reqs :
    reqs[r].kind = "vendido" /\ reqs[r].pc = "fin" /\ reqs[r].status = 200
      => DuenosDe(carrito, reqs[r].ID_publicacion) = {}

\* C18: in registrar every path that issues BEGIN on the pooled connection
\* issues COMMIT or ROLLBACK on it before the connection is released, so no
\* connection is back in the pool with a transaction open, the paths that
\* answer 400 for an invalid image and 500 for a failed upload included; and a
\* user row is stored only by the step that commits.
C18_SinTransaccionAbierta ==
  [][/\ \A c \in Conns : ~conexiones'[c].prestada => ~conexiones'[c].tx
     /\ cuentas' # cuentas =>
          \E r \in CuentaReqs : regs[r].pc = "rg_commit" /\ regs'[r].status = 201]_vars

\* C19: restablecer-contrasena changes a password only when the code supplied
\* is the most recent code issued for that address and not yet consumed, so a
\* code resets the password once; a request answered 400 (wrong, missing or
\* other-address code) leaves the passwords and the stored codes unchanged.
C19_CodigoDeUnSoloUso ==
  [][/\ cuentas' # cuentas =>
          \E r \in CuentaReqs :
            /\ resets[r].pc = "rc_update" /\ resets'[r].status = 200
            /\ ~CodigoRechazado(codigosReset[resets[r].correo], resets[r].codigo)
     /\ \A r \in CuentaReqs :
          resets[r].pc = "libre" /\ resets'[r].kind = "restablecer" /\ resets'[r].status = 400
            => UNCHANGED <<cuentas, codigosReset>>]_vars

====
